---- MODULE Spec2Model ----
(***************************************************************************)
(* CoInvest: the ledger snapshot held by App (partners, projects,          *)
(* transactions), its optimistic handlers with their remote calls, the     *)
(* realtime change-event merge, the transaction form of Projects with its  *)
(* fund-source allocation, the reports (Dashboard, PartnerSummary,         *)
(* ProjectSummary) and the import of Settings.                             *)
(*                                                                         *)
(* Amounts are whole currency units.  The text of a number input is a      *)
(* string: "" when the field is empty, the decimal numeral otherwise.      *)
(* Notes, names, avatars and colours are not part of the records; the      *)
(* date of a transaction is part of it in the ledgers of the reports only. *)
(***************************************************************************)
EXTENDS Integers, Sequences, FiniteSets, TLC

VARIABLES
    data,               \* App: useState<AppState>
    remote,             \* the hosted tables (rows in snake_case)
    calls,              \* remote calls awaited by a handler
    events,             \* change events sent to this session, not yet handled
    initPc,             \* initData: "loading" until loadData resolved, then "subscribed"
    cloudData,          \* loadData: what its queries returned, until initData resumes
    nextId,             \* number of client-generated ids so far
    ops,                \* number of requests issued so far
    edits,              \* number of changes the user made to the form
    view,               \* App: useState<ViewState>
    selectedProjectId,  \* Projects form state ...
    editingId,
    transType,
    transAmount,
    transPartner,
    isSplitMode,
    splitAmounts,
    filterPartner,      \* PartnerSummary state ...
    filterProject,
    filterMonth,
    summaryProjectId,   \* ProjectSummary: selectedProjectId
    summaryMonth,       \* ProjectSummary: filterMonth
    importStatus,       \* Settings: importStatus
    localStorage,       \* device storage: <<>> or <<the item 'coInvestData'>>
    last                \* the handler that ran last, its inputs and its alert

coreVars == <<data, remote, calls, events, initPc, cloudData, nextId, ops, view>>
viewVars == <<filterPartner, filterProject, filterMonth, summaryProjectId, summaryMonth,
              importStatus>>
appVars  == <<data, remote, calls, events, initPc, cloudData, nextId, ops, view, viewVars>>
formVars == <<selectedProjectId, editingId, transType, transAmount, transPartner,
              isSplitMode, splitAmounts, edits>>
vars     == <<appVars, formVars, localStorage, last>>

(***************************************************************************)
(* Bounds of the model.                                                    *)
(***************************************************************************)
MaxId == 2          \* ids one session generates
MaxEdits == 4        \* changes the user makes to the form
MaxOps == 2         \* requests issued, by this session's user or by another session
MaxAdds == 1        \* records added while the reports are shown

Null == "null"      \* undefined / null / the falsy empty selection

INVESTMENT == "INVESTMENT"
INCOME     == "INCOME"
EXPENSE    == "EXPENSE"
WITHDRAWAL == "WITHDRAWAL"

(***************************************************************************)
(* Lists of records with an id.                                            *)
(***************************************************************************)
Ids(list) == {list[i].id : i \in DOMAIN list}

HasId(list, id) == \E i \in DOMAIN list : list[i].id = id

RemoveId(list, id) == SelectSeq(list, LAMBDA item : item.id # id)

ReplaceId(list, record) ==
    [i \in DOMAIN list |-> IF list[i].id = record.id THEN record ELSE list[i]]

Partner(id) == [id |-> id]

Project(id) == [id |-> id]

Transaction(id, projectId, partnerId, type, amount) ==
    [id |-> id, projectId |-> projectId, partnerId |-> partnerId,
     type |-> type, amount |-> amount]

INITIAL_DATA ==
    [partners     |-> <<Partner("p1"), Partner("p2"), Partner("p3")>>,
     projects     |-> <<Project("proj1")>>,
     transactions |-> <<Transaction("t1", "proj1", "p1", INVESTMENT, 500000),
                        Transaction("t2", "proj1", "p2", INVESTMENT, 300000)>>]

\* Math.random().toString(36).substr(2, 9): the k-th id this session generates
NewId(k) == "n" \o ToString(k)

isSupabaseConnected == TRUE

\* the values isSupabaseConnected takes: !!client for the client created
\* from the URL and key written in the source
Configurations == {isSupabaseConnected}

\* the effect on [data, isSupabaseConnected]: without a remote store the
\* snapshot is written to the device storage after every change
persist ==
    localStorage' = IF ~isSupabaseConnected THEN <<data'>> ELSE localStorage

(***************************************************************************)
(* supabaseService: the rows sent to and received from the hosted tables.  *)
(***************************************************************************)
Field(rec, name) == IF name \in DOMAIN rec THEN rec[name] ELSE Null

\* a || b
OrElse(a, b) == IF a # Null THEN a ELSE b

\* addTransaction: dbTransaction
DbTransaction(t) ==
    [id |-> t.id, project_id |-> t.projectId, partner_id |-> t.partnerId,
     type |-> t.type, amount |-> t.amount]

\* mapRecord of handleRealtimeUpdate, and the same mapping in loadData
mapRecord(table, rec) ==
    IF table = "transactions"
    THEN [projectId |-> OrElse(Field(rec, "project_id"), Field(rec, "projectId")),
          partnerId |-> OrElse(Field(rec, "partner_id"), Field(rec, "partnerId"))] @@ rec
    ELSE rec

\* the rows of a table as loadData returns them
SetToSeq(S) ==
    LET RECURSIVE Build(_)
        Build(T) == IF T = {} THEN <<>>
                    ELSE LET x == CHOOSE y \in T : TRUE IN <<x>> \o Build(T \ {x})
    IN Build(S)

loadData ==
    [partners     |-> SetToSeq(remote.partners),
     projects     |-> SetToSeq(remote.projects),
     transactions |-> SetToSeq({mapRecord("transactions", r) : r \in remote.transactions})]

\* a change of the hosted tables reaches this session once it has subscribed
Publish(evs, table, eventType, rec) ==
    IF initPc = "subscribed"
    THEN evs \cup {[table |-> table, eventType |-> eventType, rec |-> rec]}
    ELSE evs

(***************************************************************************)
(* App: handleRealtimeUpdate.                                              *)
(***************************************************************************)
\* the INSERT branch without its duplicate check
MergeEventNoDuplicateCheck(list, table, e) ==
    IF e.eventType = "INSERT"
    THEN Append(list, mapRecord(table, e.rec))
    ELSE IF e.eventType = "UPDATE"
    THEN ReplaceId(list, mapRecord(table, e.rec))
    ELSE IF e.eventType = "DELETE"
    THEN RemoveId(list, e.rec.id)
    ELSE list

\* the UPDATE branch adding the record when no item has its id
MergeEventUpsert(list, table, e) ==
    IF e.eventType = "INSERT"
    THEN LET record == mapRecord(table, e.rec) IN
         IF ~HasId(list, record.id) THEN Append(list, record) ELSE list
    ELSE IF e.eventType = "UPDATE"
    THEN IF HasId(list, e.rec.id) THEN ReplaceId(list, mapRecord(table, e.rec))
         ELSE Append(list, mapRecord(table, e.rec))
    ELSE IF e.eventType = "DELETE"
    THEN RemoveId(list, e.rec.id)
    ELSE list

MergeEvent(list, table, e) ==
    IF e.eventType = "INSERT"
    THEN LET record == mapRecord(table, e.rec) IN
         IF ~HasId(list, record.id) THEN Append(list, record) ELSE list
    ELSE IF e.eventType = "UPDATE"
    THEN ReplaceId(list, mapRecord(table, e.rec))
    ELSE IF e.eventType = "DELETE"
    THEN RemoveId(list, e.rec.id)
    ELSE list

handleRealtimeUpdate(e) ==
    /\ e \in events
    /\ initPc = "subscribed"
    /\ data' = [data EXCEPT ![e.table] = MergeEvent(data[e.table], e.table, e)]
    /\ events' = events \ {e}
    /\ last' = [op |-> "handleRealtimeUpdate", table |-> e.table,
                eventType |-> e.eventType, id |-> e.rec.id, rec |-> e.rec,
                present |-> HasId(data[e.table], e.rec.id)]
    /\ UNCHANGED <<remote, calls, initPc, cloudData, nextId, ops, view, viewVars, formVars>>
    /\ persist

(***************************************************************************)
(* App: initData.  initData is the load with nothing happening between the *)
(* queries of loadData and the setData that follows; loadDataSelects and   *)
(* initDataResumes are the same load as the two steps it takes.            *)
(***************************************************************************)
\* no answer of loadData is waiting to be handled
Pending == [state |-> "pending"]

initData ==
    /\ initPc = "loading"
    /\ cloudData = Pending
    /\ IF isSupabaseConnected
       THEN /\ \E failed \in BOOLEAN :
                  /\ data' = IF failed THEN data ELSE loadData
                  /\ last' = [op |-> "initData", failed |-> failed]
            /\ initPc' = "subscribed"
       ELSE \* Fallback: LocalStorage
            /\ data' = IF localStorage # <<>> THEN localStorage[1] ELSE data
            /\ last' = [op |-> "initData", failed |-> FALSE]
            /\ initPc' = "local"
    /\ UNCHANGED <<remote, calls, events, cloudData, nextId, ops, view, viewVars, formVars>>
    /\ persist

\* loadData: the hosted tables answer the three queries
loadDataSelects ==
    /\ isSupabaseConnected
    /\ initPc = "loading"
    /\ cloudData = Pending
    /\ \E failed \in BOOLEAN :
          cloudData' = IF failed THEN [state |-> "null"]
                       ELSE [state |-> "rows", rows |-> loadData]
    /\ last' = [op |-> "loadDataSelects"]
    /\ UNCHANGED <<data, remote, calls, events, initPc, nextId, ops, view, viewVars, formVars>>
    /\ persist

\* initData after its await: if (cloudData) setData(cloudData), then
\* subscribeToChanges
initDataResumes ==
    /\ initPc = "loading"
    /\ cloudData # Pending
    /\ data' = IF cloudData.state = "rows" THEN cloudData.rows ELSE data
    /\ last' = [op |-> "initData", failed |-> cloudData.state = "null"]
    /\ initPc' = "subscribed"
    /\ cloudData' = Pending
    /\ UNCHANGED <<remote, calls, events, nextId, ops, view, viewVars, formVars>>
    /\ persist

(***************************************************************************)
(* App: the optimistic handlers.  Each one changes the snapshot and starts *)
(* its remote call; the call's answer is a later step.                     *)
(***************************************************************************)
Call(op, id, rec, prev) == [op |-> op, id |-> id, rec |-> rec, prev |-> prev]

\* handleAddTransaction on a session state s = [data, calls, nextId]
AddTransactionTo(s, transaction) ==
    LET newTransaction == [id |-> NewId(s.nextId)] @@ transaction IN
    [data   |-> [s.data EXCEPT !.transactions = Append(@, newTransaction)],
     calls  |-> IF isSupabaseConnected
                THEN s.calls \cup {Call("addTransaction", newTransaction.id, newTransaction, <<>>)}
                ELSE s.calls,
     nextId |-> s.nextId + 1]

Session == [data |-> data, calls |-> calls, nextId |-> nextId]

handleAddProject ==
    /\ nextId < MaxId
    /\ ops < MaxOps
    /\ LET newProject == Project(NewId(nextId)) IN
       /\ data' = [data EXCEPT !.projects = Append(@, newProject)]
       /\ calls' = IF isSupabaseConnected
                   THEN calls \cup {Call("addProject", newProject.id, newProject, <<>>)}
                   ELSE calls
       /\ last' = [op |-> "handleAddProject", id |-> newProject.id, before |-> data]
    /\ nextId' = nextId + 1
    /\ ops' = ops + 1
    /\ UNCHANGED <<remote, events, initPc, cloudData, view, viewVars, formVars>>
    /\ persist

handleAddPartner ==
    /\ nextId < MaxId
    /\ ops < MaxOps
    /\ LET newPartner == Partner(NewId(nextId)) IN
       /\ data' = [data EXCEPT !.partners = Append(@, newPartner)]
       /\ calls' = IF isSupabaseConnected
                   THEN calls \cup {Call("addPartner", newPartner.id, newPartner, <<>>)}
                   ELSE calls
       /\ last' = [op |-> "handleAddPartner", id |-> newPartner.id, before |-> data]
    /\ nextId' = nextId + 1
    /\ ops' = ops + 1
    /\ UNCHANGED <<remote, events, initPc, cloudData, view, viewVars, formVars>>
    /\ persist

\* a delete that also removes the entries an allocation created along with
\* the deleted one: the partnerless expenses of the same amount
handleDeleteTransactionCascade(id) ==
    /\ ops < MaxOps
    /\ HasId(data.transactions, id)
    /\ LET previousTransactions == data.transactions
           deleted == CHOOSE t \in {data.transactions[i] : i \in DOMAIN data.transactions} :
                          t.id = id
       IN
       /\ data' = [data EXCEPT !.transactions =
                      SelectSeq(@, LAMBDA t : /\ t.id # id
                                              /\ ~(/\ deleted.type = EXPENSE
                                                   /\ deleted.partnerId = Null
                                                   /\ t.type = EXPENSE
                                                   /\ t.partnerId = Null
                                                   /\ t.amount = deleted.amount))]
       /\ calls' = IF isSupabaseConnected
                   THEN calls \cup {Call("deleteTransaction", id, [id |-> id], previousTransactions)}
                   ELSE calls
    /\ last' = [op |-> "handleDeleteTransaction", id |-> id, before |-> data]
    /\ ops' = ops + 1
    /\ UNCHANGED <<remote, events, initPc, cloudData, nextId, view, viewVars, formVars>>
    /\ persist

handleDeleteTransaction(id) ==
    /\ ops < MaxOps
    /\ HasId(data.transactions, id)
    /\ LET previousTransactions == data.transactions IN
       /\ data' = [data EXCEPT !.transactions = RemoveId(@, id)]
       /\ calls' = IF isSupabaseConnected
                   THEN calls \cup {Call("deleteTransaction", id, [id |-> id], previousTransactions)}
                   ELSE calls
    /\ last' = [op |-> "handleDeleteTransaction", id |-> id, before |-> data]
    /\ ops' = ops + 1
    /\ UNCHANGED <<remote, events, initPc, cloudData, nextId, view, viewVars, formVars>>
    /\ persist

hasTransactions(id) ==
    \E i \in DOMAIN data.transactions : data.transactions[i].partnerId = id

\* handleDeletePartner without its hasTransactions check
handleDeletePartnerUnguarded(id) ==
    /\ ops < MaxOps
    /\ HasId(data.partners, id)
    /\ data' = [data EXCEPT !.partners = RemoveId(@, id)]
    /\ calls' = calls \cup {Call("deletePartner", id, [id |-> id], data.partners)}
    /\ last' = [op |-> "handleDeletePartner", id |-> id, alert |-> Null, before |-> data]
    /\ ops' = ops + 1
    /\ UNCHANGED <<remote, events, initPc, cloudData, nextId, view, viewVars, formVars>>
    /\ persist

handleDeletePartner(id) ==
    /\ ops < MaxOps
    /\ HasId(data.partners, id)
    /\ IF hasTransactions(id)
       THEN /\ last' = [op |-> "handleDeletePartner", id |-> id, alert |-> "hasTransactions",
                        before |-> data]
            /\ UNCHANGED <<data, calls, ops>>
       ELSE LET previousPartners == data.partners IN
            /\ data' = [data EXCEPT !.partners = RemoveId(@, id)]
            /\ calls' = IF isSupabaseConnected
                        THEN calls \cup {Call("deletePartner", id, [id |-> id], previousPartners)}
                        ELSE calls
            /\ last' = [op |-> "handleDeletePartner", id |-> id, alert |-> Null,
                        before |-> data]
            /\ ops' = ops + 1
    /\ UNCHANGED <<remote, events, initPc, cloudData, nextId, view, viewVars, formVars>>
    /\ persist

(***************************************************************************)
(* The answers of the remote calls: with an error the handler reverts,     *)
(* without one the row is written and the change is published.             *)
(***************************************************************************)
\* the handler that awaits a remote call
HandlerOf(op) ==
    IF op = "addProject" THEN "handleAddProject"
    ELSE IF op = "addTransaction" THEN "handleAddTransaction"
    ELSE IF op = "deleteTransaction" THEN "handleDeleteTransaction"
    ELSE IF op = "addPartner" THEN "handleAddPartner"
    ELSE "handleDeletePartner"

\* c is the call issued by the handler step that set l
IssuedBy(c, l) ==
    /\ l.op = HandlerOf(c.op)
    /\ l.id = c.id
    /\ c.op = "deleteTransaction" => c.prev = l.before.transactions
    /\ c.op = "deletePartner" => c.prev = l.before.partners

\* the ids of the records one request created, while its calls are the only
\* steps since: the request of a form submission, carried by its calls' answers
RequestOf(l) ==
    IF l.op = "handleFormSubmit" THEN {l.created[i].id : i \in DOMAIN l.created}
    ELSE IF "request" \in DOMAIN l THEN l.request
    ELSE {}

RequestFailed(l) == IF "failed" \in DOMAIN l THEN l.failed ELSE {}

\* what the answer of call c records in last
Answered(c, error) ==
    [op |-> c.op, id |-> c.id, error |-> error,
     alert |-> IF error THEN "failed" ELSE Null,
     \* direct: the call is answered right after its handler issued it
     direct |-> IssuedBy(c, last),
     request |-> IF c.id \in RequestOf(last) THEN RequestOf(last) ELSE {},
     failed |-> IF c.id \in RequestOf(last)
                THEN RequestFailed(last) \cup (IF error THEN {c.id} ELSE {})
                ELSE {}]

\* the error branches of the add handlers without their setData
RevertedDeletesOnly(c) ==
    IF c.op = "deleteTransaction" THEN [data EXCEPT !.transactions = c.prev]
    ELSE IF c.op = "deletePartner" THEN [data EXCEPT !.partners = c.prev]
    ELSE data

Reverted(c) ==
    IF c.op = "addProject" THEN [data EXCEPT !.projects = RemoveId(@, c.id)]
    ELSE IF c.op = "addTransaction" THEN [data EXCEPT !.transactions = RemoveId(@, c.id)]
    ELSE IF c.op = "deleteTransaction" THEN [data EXCEPT !.transactions = c.prev]
    ELSE IF c.op = "addPartner" THEN [data EXCEPT !.partners = RemoveId(@, c.id)]
    ELSE [data EXCEPT !.partners = c.prev]

RowsWithout(rows, id) == {r \in rows : r.id # id}

callFails(c) ==
    /\ data' = Reverted(c)
    /\ calls' = calls \ {c}
    /\ last' = Answered(c, TRUE)
    /\ UNCHANGED <<remote, events, initPc, cloudData, nextId, ops, view, viewVars, formVars>>
    /\ persist

callInserts(c, table, row) ==
    /\ remote' = [remote EXCEPT ![table] = @ \cup {row}]
    /\ events' = Publish(events, table, "INSERT", row)
    /\ calls' = calls \ {c}
    /\ last' = Answered(c, FALSE)
    /\ UNCHANGED <<data, initPc, cloudData, nextId, ops, view, viewVars, formVars>>
    /\ persist

callDeletes(c, table) ==
    /\ remote' = [remote EXCEPT ![table] = RowsWithout(@, c.id)]
    /\ events' = IF \E r \in remote[table] : r.id = c.id
                 THEN Publish(events, table, "DELETE", [id |-> c.id])
                 ELSE events
    /\ calls' = calls \ {c}
    /\ last' = Answered(c, FALSE)
    /\ UNCHANGED <<data, initPc, cloudData, nextId, ops, view, viewVars, formVars>>
    /\ persist

addProjectReturns(c) ==
    /\ c \in calls /\ c.op = "addProject"
    /\ \/ callFails(c)
       \/ callInserts(c, "projects", c.rec)

addTransactionReturns(c) ==
    /\ c \in calls /\ c.op = "addTransaction"
    /\ \/ callFails(c)
       \/ callInserts(c, "transactions", DbTransaction(c.rec))

deleteTransactionReturns(c) ==
    /\ c \in calls /\ c.op = "deleteTransaction"
    /\ \/ callFails(c)
       \/ callDeletes(c, "transactions")

addPartnerReturns(c) ==
    /\ c \in calls /\ c.op = "addPartner"
    /\ \/ callFails(c)
       \/ callInserts(c, "partners", c.rec)

deletePartnerReturns(c) ==
    /\ c \in calls /\ c.op = "deletePartner"
    /\ \/ callFails(c)
       \/ callDeletes(c, "partners")

(***************************************************************************)
(* App: handleAddTransaction, called with what a form of Projects passes:  *)
(* the selected project or a source project of the snapshot, no partner or *)
(* a partner of the snapshot.                                              *)
(***************************************************************************)
handleAddTransaction(transaction) ==
    /\ nextId < MaxId
    /\ ops < MaxOps
    /\ LET s == AddTransactionTo(Session, transaction) IN
       /\ data' = s.data
       /\ calls' = s.calls
       /\ nextId' = s.nextId
    /\ ops' = ops + 1
    /\ last' = [op |-> "handleAddTransaction", id |-> NewId(nextId), before |-> data]
    /\ UNCHANGED <<remote, events, initPc, cloudData, view, viewVars, formVars>>
    /\ persist

(***************************************************************************)
(* Another session of the application writing to the same hosted tables    *)
(* (its remote calls that succeed), and a row of transactions changed in   *)
(* place; this session sees them as change events only.                    *)
(***************************************************************************)
OtherId(k) == "o" \o ToString(k)

otherWrites(table, eventType, rows, rec) ==
    /\ ops < MaxOps
    /\ ops' = ops + 1
    /\ remote' = [remote EXCEPT ![table] = rows]
    /\ events' = Publish(events, table, eventType, rec)
    /\ last' = [op |-> "otherSession", table |-> table, eventType |-> eventType]
    /\ UNCHANGED <<data, calls, initPc, cloudData, nextId, view, viewVars, formVars>>
    /\ persist

otherAddsPartner ==
    otherWrites("partners", "INSERT",
                remote.partners \cup {Partner(OtherId(ops))}, Partner(OtherId(ops)))

otherAddsProject ==
    otherWrites("projects", "INSERT",
                remote.projects \cup {Project(OtherId(ops))}, Project(OtherId(ops)))

otherAddsTransaction(transaction) ==
    LET row == DbTransaction([id |-> OtherId(ops)] @@ transaction) IN
    otherWrites("transactions", "INSERT", remote.transactions \cup {row}, row)

otherDeletesTransaction(row) ==
    otherWrites("transactions", "DELETE", remote.transactions \ {row}, [id |-> row.id])

otherDeletesPartner(row) ==
    /\ \A t \in remote.transactions : t.partner_id # row.id
    /\ otherWrites("partners", "DELETE", remote.partners \ {row}, [id |-> row.id])

rowUpdated(row) ==
    LET changed == [row EXCEPT !.amount = @ + 1] IN
    otherWrites("transactions", "UPDATE", (remote.transactions \ {row}) \cup {changed}, changed)

RowIds(rows) == {r.id : r \in rows}

otherSession ==
    \/ otherAddsPartner
    \/ otherAddsProject
    \/ \E projectId \in RowIds(remote.projects), partnerId \in RowIds(remote.partners) \cup {Null} :
          otherAddsTransaction([projectId |-> projectId, partnerId |-> partnerId,
                                type |-> EXPENSE, amount |-> 1])
    \/ \E row \in remote.transactions : otherDeletesTransaction(row)
    \/ \E row \in remote.partners : otherDeletesPartner(row)
    \/ \E row \in remote.transactions : rowUpdated(row)

(***************************************************************************)
(* The session and its remote store.                                       *)
(***************************************************************************)
RemoteInit ==
    [partners     |-> {Partner("p1"), Partner("p2")},
     projects     |-> {Project("proj1"), Project("proj2")},
     transactions |-> {DbTransaction(Transaction("t1", "proj1", "p1", INVESTMENT, 500000))}]

\* the state of the views that are not shown
ViewInit ==
    /\ filterPartner = "all"
    /\ filterProject = "all"
    /\ filterMonth = ""
    /\ summaryProjectId = Null
    /\ summaryMonth = ""
    /\ importStatus = "idle"

FormInit ==
    /\ selectedProjectId = Null
    /\ editingId = Null
    /\ transType = EXPENSE
    /\ transAmount = ""
    /\ transPartner = ""
    /\ isSplitMode = FALSE
    /\ splitAmounts = <<>>
    /\ edits = 0

Init ==
    /\ data = INITIAL_DATA
    /\ remote = RemoteInit
    /\ calls = {}
    /\ events = {}
    /\ initPc = "loading"
    /\ cloudData = Pending
    /\ nextId = 0
    /\ ops = 0
    /\ view = "DASHBOARD"
    /\ ViewInit
    /\ localStorage = <<>>
    /\ FormInit
    /\ last = [op |-> "init"]

SyncAmounts == {1}

SyncTypes == {EXPENSE}

NextOwn ==
    \/ initData
    \/ \E e \in events : handleRealtimeUpdate(e)
    \/ handleAddProject
    \/ handleAddPartner
    \/ \E projectId \in Ids(data.projects), partnerId \in Ids(data.partners) \cup {Null},
          type \in SyncTypes, amount \in SyncAmounts :
          handleAddTransaction([projectId |-> projectId, partnerId |-> partnerId,
                                type |-> type, amount |-> amount])
    \/ \E id \in Ids(data.transactions) : handleDeleteTransaction(id)
    \/ \E id \in Ids(data.partners) : handleDeletePartner(id)
    \/ \E c \in calls : addProjectReturns(c)
    \/ \E c \in calls : addTransactionReturns(c)
    \/ \E c \in calls : deleteTransactionReturns(c)
    \/ \E c \in calls : addPartnerReturns(c)
    \/ \E c \in calls : deletePartnerReturns(c)

Next ==
    \/ NextOwn
    \/ otherSession

Spec == Init /\ [][Next]_vars

\* this session alone: no other session writes to the hosted tables
SpecOwn == Init /\ [][NextOwn]_vars

\* the start of the session: records added while the load is under way,
\* the answers of their calls and the change events that follow
NextLoad ==
    \/ loadDataSelects
    \/ initDataResumes
    \/ \E projectId \in Ids(data.projects), partnerId \in Ids(data.partners) \cup {Null},
          type \in SyncTypes, amount \in SyncAmounts :
          /\ initPc = "loading"
          /\ handleAddTransaction([projectId |-> projectId, partnerId |-> partnerId,
                                   type |-> type, amount |-> amount])
    \/ \E c \in calls : addTransactionReturns(c)
    \/ \E e \in events : handleRealtimeUpdate(e)

SpecLoad == Init /\ [][NextLoad]_vars

(***************************************************************************)
(* Settings: the import of a backup file, and App: handleImportData.  A    *)
(* file is what JSON.parse makes of its text: "invalid" when it throws,    *)
(* "null" for the JSON null, "object" with the parsed value otherwise.     *)
(***************************************************************************)
ViewStates == {"DASHBOARD", "PROJECTS", "PARTNERS", "SETTINGS"}

setView(viewName) ==
    /\ viewName # view
    /\ view' = viewName
    /\ last' = [op |-> "setView"]
    /\ UNCHANGED <<data, remote, calls, events, initPc, cloudData, nextId, ops, viewVars, formVars>>
    /\ persist

Backup ==
    [partners     |-> <<Partner("p1")>>,
     projects     |-> <<Project("proj1")>>,
     transactions |-> <<Transaction("b1", "proj1", "p1", INVESTMENT, 1000)>>]

ImportFiles ==
    {[kind |-> "invalid"],
     [kind |-> "null"],
     [kind |-> "object", value |-> Backup],
     [kind |-> "object", value |-> [partners |-> Backup.partners, projects |-> Backup.projects]],
     [kind |-> "object", value |-> [projects |-> Backup.projects,
                                    transactions |-> Backup.transactions]],
     [kind |-> "object", value |-> [partners |-> Backup.partners]]}

\* the validation looking at two of the three keys only
hasStructureTwoKeys(json) ==
    Field(json, "partners") # Null /\ Field(json, "projects") # Null

\* json.partners && json.projects && json.transactions
hasStructure(json) ==
    Field(json, "partners") # Null /\ Field(json, "projects") # Null
        /\ Field(json, "transactions") # Null

\* handleFileChange with reader.onload; confirmed is the user's answer to the
\* confirm of handleImportData
handleFileChange(file, confirmed) ==
    /\ view = "SETTINGS"
    /\ ops < MaxOps
    /\ ops' = ops + 1
    /\ IF file.kind = "object" /\ hasStructure(file.value)
       THEN \* onImport(json)
            /\ IF confirmed
               THEN data' = file.value /\ view' = "DASHBOARD"
               ELSE UNCHANGED <<data, view>>
            /\ importStatus' = "success"
       ELSE \* JSON.parse threw, json.partners threw, or "Invalid structure"
            /\ importStatus' = "error"
            /\ UNCHANGED <<data, view>>
    /\ last' = [op |-> "handleFileChange", file |-> file, confirmed |-> confirmed,
                before |-> data]
    /\ UNCHANGED <<remote, calls, events, initPc, cloudData, nextId, formVars, filterPartner,
                   filterProject, filterMonth, summaryProjectId, summaryMonth>>
    /\ persist

\* setTimeout(() => setImportStatus('idle'), 3000)
importStatusTimeout ==
    /\ importStatus # "idle"
    /\ importStatus' = "idle"
    /\ last' = [op |-> "importStatusTimeout"]
    /\ UNCHANGED <<coreVars, formVars, filterPartner, filterProject, filterMonth,
                   summaryProjectId, summaryMonth>>
    /\ persist

\* the Settings view: the partners and the import
NextSettings ==
    \/ initData
    \/ \E e \in events : handleRealtimeUpdate(e)
    \/ \E viewName \in ViewStates : setView(viewName)
    \/ view = "SETTINGS" /\ handleAddPartner
    \/ \E id \in Ids(data.partners) : view = "SETTINGS" /\ handleDeletePartner(id)
    \/ \E c \in calls : addPartnerReturns(c)
    \/ \E c \in calls : deletePartnerReturns(c)
    \/ \E file \in ImportFiles, confirmed \in BOOLEAN : handleFileChange(file, confirmed)
    \/ importStatusTimeout

SpecSettings == Init /\ [][NextSettings]_vars

(***************************************************************************)
(* Properties of the session (specification Spec).                         *)
(***************************************************************************)
ReferencesPartner(transactions, id) ==
    \E i \in DOMAIN transactions : transactions[i].partnerId = id

\* C7: a delete-partner request for a partner that some transaction of the
\* snapshot references changes neither partners nor transactions and issues
\* no remote delete.
C7_ReferentialGuard ==
    [][(/\ last'.op = "handleDeletePartner"
        /\ ReferencesPartner(data.transactions, last'.id))
       => (data' = data /\ calls' = calls /\ remote' = remote)]_vars

C7_Witness ==
    /\ last.op = "handleDeletePartner"
    /\ last.alert = "hasTransactions"
    /\ ReferencesPartner(data.transactions, last.id)

\* C8: every transaction of the snapshot that has a partnerId references a
\* partner of the snapshot.
C8_PartnerIntegrity ==
    \A i \in DOMAIN data.transactions :
        \/ data.transactions[i].partnerId = Null
        \/ data.transactions[i].partnerId \in Ids(data.partners)

\* C9: every transaction of the snapshot has the projectId of a project of
\* the snapshot.
C9_ProjectIntegrity ==
    \A i \in DOMAIN data.transactions :
        data.transactions[i].projectId \in Ids(data.projects)

\* C10: an INSERT change event whose record id is already in its table of the
\* snapshot leaves the snapshot unchanged.
C10_DuplicateInsertSuppressed ==
    [][(/\ last'.op = "handleRealtimeUpdate"
        /\ last'.eventType = "INSERT"
        /\ HasId(data[last'.table], last'.id))
       => data' = data]_vars

C10_Witness ==
    /\ last.op = "handleRealtimeUpdate"
    /\ last.eventType = "INSERT"
    /\ last.present
    /\ Cardinality({i \in DOMAIN data[last.table] : data[last.table][i].id = last.id}) = 1

\* the change event handled by the step that set last
HandledEvent(l) == [table |-> l.table, eventType |-> l.eventType, rec |-> l.rec]

TableNames == {"partners", "projects", "transactions"}

\* C11: handling a change event a second time changes nothing more; an UPDATE
\* replaces exactly the records with the event's id, a DELETE removes exactly
\* those, and every other record and the other two tables stay as they were.
C11_IdempotentMerge ==
    [][last'.op = "handleRealtimeUpdate" =>
        LET e == HandledEvent(last')
            t == e.table
        IN  /\ MergeEvent(data'[t], t, e) = data'[t]
            /\ \A u \in TableNames \ {t} : data'[u] = data[u]
            /\ e.eventType = "UPDATE" =>
                  /\ Len(data'[t]) = Len(data[t])
                  /\ \A i \in DOMAIN data[t] :
                        data'[t][i] = IF data[t][i].id = e.rec.id
                                      THEN mapRecord(t, e.rec) ELSE data[t][i]
            /\ e.eventType = "DELETE" =>
                  data'[t] = SelectSeq(data[t], LAMBDA item : item.id # e.rec.id)]_vars

\* an UPDATE event replaced the record it names
C11_Witness ==
    /\ last.op = "handleRealtimeUpdate"
    /\ last.eventType = "UPDATE"
    /\ last.present
    /\ \E i \in DOMAIN data[last.table] :
          /\ data[last.table][i] = mapRecord(last.table, last.rec)
          /\ data[last.table][i].amount = 500001

CallOps == {"addProject", "addTransaction", "deleteTransaction", "addPartner", "deletePartner"}

Handlers == {HandlerOf(op) : op \in CallOps}

\* C12: each mutating handler changes the snapshot when it issues its remote
\* call, before the call returns; when the call fails as the very next step,
\* the snapshot after the revert is the snapshot before the handler ran.
C12_OptimisticRevert ==
    [][/\ (last'.op \in Handlers /\ calls' # calls) =>
            /\ data' # data
            /\ last'.before = data
            /\ \E c \in calls' \ calls : HandlerOf(c.op) = last'.op /\ c.id = last'.id
       /\ (last'.op \in CallOps /\ last'.error /\ last'.direct) =>
            /\ last.op = HandlerOf(last'.op)
            /\ data' = last.before]_vars

\* a failed delete restored the transaction right after it was removed
C12_Witness ==
    /\ last.op = "deleteTransaction"
    /\ last.error
    /\ last.direct
    /\ HasId(data.transactions, last.id)

(***************************************************************************)
(* Projects: the transaction form.  splitAmounts is the object's entries   *)
(* in insertion order, each a pair <<key, text>>.                          *)
(***************************************************************************)
AmountTexts == {"", "-2", "0", "1", "3"}

Numbers == (-9 .. 9) \cup {data.transactions[i].amount : i \in DOMAIN data.transactions}

IsNumeral(text) == \E n \in Numbers : ToString(n) = text

\* parseFloat of a numeral
parseFloat(text) == CHOOSE n \in Numbers : ToString(n) = text

\* parseFloat(val) || 0
parseFloatOrZero(text) == IF IsNumeral(text) THEN parseFloat(text) ELSE 0

Abs(n) == IF n < 0 THEN -n ELSE n

Keys(obj) == {obj[i][1] : i \in DOMAIN obj}

SetKey(obj, key, val) ==
    IF key \in Keys(obj)
    THEN [i \in DOMAIN obj |-> IF obj[i][1] = key THEN <<key, val>> ELSE obj[i]]
    ELSE Append(obj, <<key, val>>)

RECURSIVE SumOfTexts(_)
SumOfTexts(obj) ==
    IF obj = <<>> THEN 0 ELSE parseFloatOrZero(Head(obj)[2]) + SumOfTexts(Tail(obj))

calculateSplitTotal == SumOfTexts(splitAmounts)

selectedProjectFound == HasId(data.projects, selectedProjectId)

otherProjects == SelectSeq(data.projects, LAMBDA p : p.id # selectedProjectId)

\* App renders <Projects> without the onUpdateTransaction prop
onUpdateTransaction == Null

\* the entries of sourcesToProcess in split mode: the keys whose text parses
\* to an amount > 0
RECURSIVE PositiveEntries(_)
PositiveEntries(obj) ==
    IF obj = <<>> THEN <<>>
    ELSE LET key == Head(obj)[1]
             val == Head(obj)[2]
         IN  IF IsNumeral(val) /\ parseFloat(val) > 0
             THEN <<<<key, parseFloat(val)>>>> \o PositiveEntries(Tail(obj))
             ELSE PositiveEntries(Tail(obj))

Tolerance == 1

\* the comparison without Math.abs
SplitRejectedOneSided(totalAmount) == calculateSplitTotal - totalAmount > Tolerance

SplitRejected(totalAmount) == Abs(calculateSplitTotal - totalAmount) > Tolerance

sourcesToProcess(totalAmount) ==
    IF isSplitMode
    THEN PositiveEntries(splitAmounts)
    ELSE <<<<IF transPartner # "" THEN transPartner ELSE "POOL", totalAmount>>>>

NewTransaction(projectId, partnerId, type, amount) ==
    [projectId |-> projectId, partnerId |-> partnerId, type |-> type, amount |-> amount]

\* a project source without its deduction in the source project
EntriesForWithoutDeduction(sourceKey, amount) ==
    IF HasId(data.projects, sourceKey)
    THEN <<NewTransaction(selectedProjectId, Null, EXPENSE, amount)>>
    ELSE IF HasId(data.partners, sourceKey)
    THEN <<NewTransaction(selectedProjectId, sourceKey, EXPENSE, amount)>>
    ELSE <<NewTransaction(selectedProjectId, Null, EXPENSE, amount)>>

\* a partner source recorded without its partnerId
EntriesForWithoutPartner(sourceKey, amount) ==
    IF HasId(data.projects, sourceKey)
    THEN <<NewTransaction(selectedProjectId, Null, EXPENSE, amount),
           NewTransaction(sourceKey, Null, EXPENSE, amount)>>
    ELSE <<NewTransaction(selectedProjectId, Null, EXPENSE, amount)>>

\* the onAddTransaction calls made for one source
EntriesFor(sourceKey, amount) ==
    LET isPartner == HasId(data.partners, sourceKey)
        isProject == HasId(data.projects, sourceKey)
    IN  IF isProject
        THEN <<NewTransaction(selectedProjectId, Null, EXPENSE, amount),
               NewTransaction(sourceKey, Null, EXPENSE, amount)>>
        ELSE IF isPartner
        THEN <<NewTransaction(selectedProjectId, sourceKey, EXPENSE, amount)>>
        ELSE <<NewTransaction(selectedProjectId, Null, EXPENSE, amount)>>

RECURSIVE AllEntries(_)
AllEntries(sources) ==
    IF sources = <<>> THEN <<>>
    ELSE EntriesFor(Head(sources)[1], Head(sources)[2]) \o AllEntries(Tail(sources))

RECURSIVE AddAll(_, _)
AddAll(s, transactions) ==
    IF transactions = <<>> THEN s
    ELSE AddAll(AddTransactionTo(s, Head(transactions)), Tail(transactions))

Created(s) == SubSeq(s.data.transactions, Len(data.transactions) + 1, Len(s.data.transactions))

\* what the submit handlers record in last
Submitted(form, outcome, created) ==
    [op |-> "handleFormSubmit", form |-> form, outcome |-> outcome,
     projectId |-> selectedProjectId, editingId |-> editingId, type |-> transType,
     text |-> transAmount, source |-> transPartner, split |-> isSplitMode,
     sources |-> splitAmounts, before |-> data.transactions, created |-> created]

\* the form is shown for a selected project of the snapshot; the browser
\* submits it only with an amount, and with a partner chosen for INVESTMENT
CanSubmit ==
    /\ selectedProjectFound
    /\ transAmount # ""
    /\ transType = INVESTMENT => HasId(data.partners, transPartner)

\* handleFormSubmit of the form with fund sources
handleFormSubmit ==
    /\ CanSubmit
    /\ ops < MaxOps
    /\ ops' = ops + 1
    /\ LET totalAmount == parseFloat(transAmount) IN
       IF editingId # Null
       THEN \* onUpdateTransaction is not a function: the handler throws
            /\ onUpdateTransaction = Null
            /\ last' = Submitted("sources", "threw", <<>>)
            /\ UNCHANGED <<data, calls, nextId, formVars>>
       ELSE IF isSplitMode /\ SplitRejected(totalAmount)
       THEN /\ last' = Submitted("sources", "rejected", <<>>)
            /\ UNCHANGED <<data, calls, nextId, formVars>>
       ELSE LET s == AddAll(Session, AllEntries(sourcesToProcess(totalAmount))) IN
            /\ data' = s.data
            /\ calls' = s.calls
            /\ nextId' = s.nextId
            /\ last' = Submitted("sources", "created", Created(s))
            \* resetForm
            /\ transAmount' = ""
            /\ splitAmounts' = <<>>
            /\ UNCHANGED <<selectedProjectId, editingId, transType, transPartner,
                           isSplitMode, edits>>
    /\ UNCHANGED <<remote, events, initPc, cloudData, view, viewVars>>
    /\ persist

\* handleFormSubmit of src/components/Projects.tsx
Projects_handleFormSubmit ==
    /\ CanSubmit
    /\ ops < MaxOps
    /\ ops' = ops + 1
    /\ IF editingId # Null
       THEN /\ onUpdateTransaction = Null
            /\ last' = Submitted("plain", "threw", <<>>)
            /\ UNCHANGED <<data, calls, nextId, formVars>>
       ELSE LET s == AddTransactionTo(Session,
                        NewTransaction(selectedProjectId,
                                       IF transPartner # "" THEN transPartner ELSE Null,
                                       transType, parseFloat(transAmount))) IN
            /\ data' = s.data
            /\ calls' = s.calls
            /\ nextId' = s.nextId
            /\ last' = Submitted("plain", "created", Created(s))
            /\ transAmount' = ""
            /\ UNCHANGED <<selectedProjectId, editingId, transType, transPartner,
                           isSplitMode, splitAmounts, edits>>
    /\ UNCHANGED <<remote, events, initPc, cloudData, view, viewVars>>
    /\ persist

(***************************************************************************)
(* Projects: what the user does to the form.                               *)
(***************************************************************************)
Edit(field) ==
    /\ selectedProjectFound
    /\ edits < MaxEdits
    /\ edits' = edits + 1
    /\ last' = [op |-> field]
    /\ UNCHANGED appVars
    /\ persist

setSelectedProjectId(id) ==
    /\ edits < MaxEdits
    /\ edits' = edits + 1
    /\ id # selectedProjectId
    /\ selectedProjectId' = id
    /\ last' = [op |-> "setSelectedProjectId"]
    /\ UNCHANGED <<appVars, editingId, transType, transAmount, transPartner,
                   isSplitMode, splitAmounts>>
    /\ persist

setTransType(type) ==
    /\ Edit("setTransType")
    /\ type # transType
    /\ transType' = type
    /\ isSplitMode' = IF type # EXPENSE THEN FALSE ELSE isSplitMode
    /\ UNCHANGED <<selectedProjectId, editingId, transAmount, transPartner, splitAmounts>>

setTransAmount(text) ==
    /\ Edit("setTransAmount")
    /\ text # transAmount
    /\ transAmount' = text
    /\ UNCHANGED <<selectedProjectId, editingId, transType, transPartner,
                   isSplitMode, splitAmounts>>

\* the options of the source select: the pool, the partners and, for an
\* expense, the other projects
sourceOptions ==
    {""} \cup Ids(data.partners) \cup (IF transType = EXPENSE THEN Ids(otherProjects) ELSE {})

splitInputsShown == transType = EXPENSE /\ editingId = Null /\ isSplitMode

setTransPartner(value) ==
    /\ Edit("setTransPartner")
    /\ ~splitInputsShown
    /\ value \in sourceOptions
    /\ value # transPartner
    /\ transPartner' = value
    /\ UNCHANGED <<selectedProjectId, editingId, transType, transAmount,
                   isSplitMode, splitAmounts>>

setIsSplitMode ==
    /\ Edit("setIsSplitMode")
    /\ transType = EXPENSE
    /\ editingId = Null
    /\ isSplitMode' = ~isSplitMode
    /\ UNCHANGED <<selectedProjectId, editingId, transType, transAmount,
                   transPartner, splitAmounts>>

setSplitAmounts(key, text) ==
    /\ Edit("setSplitAmounts")
    /\ splitInputsShown
    /\ key \in {"POOL"} \cup Ids(data.partners) \cup Ids(otherProjects)
    /\ splitAmounts' = SetKey(splitAmounts, key, text)
    /\ splitAmounts' # splitAmounts
    /\ UNCHANGED <<selectedProjectId, editingId, transType, transAmount,
                   transPartner, isSplitMode>>

startEditing(t) ==
    /\ Edit("startEditing")
    /\ t.projectId = selectedProjectId
    /\ editingId' = t.id
    /\ transType' = t.type
    /\ transAmount' = ToString(t.amount)
    /\ transPartner' = IF t.partnerId # Null THEN t.partnerId ELSE ""
    /\ isSplitMode' = FALSE
    /\ UNCHANGED <<selectedProjectId, splitAmounts>>

\* cancelEditing, with resetForm and the effect on editingId
cancelEditing ==
    /\ Edit("cancelEditing")
    /\ editingId # Null
    /\ editingId' = Null
    /\ transAmount' = ""
    /\ transType' = EXPENSE
    /\ transPartner' = ""
    /\ isSplitMode' = FALSE
    /\ splitAmounts' = <<<<"POOL", "">>>>
    /\ UNCHANGED selectedProjectId

(***************************************************************************)
(* The form of Projects, mounted on the loaded snapshot.                   *)
(***************************************************************************)
InitForm ==
    /\ remote = RemoteInit
    /\ data = loadData
    /\ calls = {}
    /\ events = {}
    /\ initPc = "subscribed"
    /\ cloudData = Pending
    /\ nextId = 0
    /\ ops = 0
    /\ view = "PROJECTS"
    /\ ViewInit
    /\ localStorage = <<>>
    /\ selectedProjectId = data.projects[1].id
    /\ editingId = Null
    /\ transType = EXPENSE
    /\ transAmount = ""
    /\ transPartner = ""
    /\ isSplitMode = FALSE
    /\ splitAmounts = <<<<"POOL", "">>>>
    /\ edits = 0
    /\ last = [op |-> "init"]

NextForm ==
    \/ \E id \in Ids(data.projects) : setSelectedProjectId(id)
    \/ \E type \in {EXPENSE, INCOME, INVESTMENT} : setTransType(type)
    \/ \E text \in AmountTexts : setTransAmount(text)
    \/ \E value \in sourceOptions : setTransPartner(value)
    \/ setIsSplitMode
    \/ \E key \in {"POOL"} \cup Ids(data.partners) \cup Ids(otherProjects), text \in AmountTexts :
          setSplitAmounts(key, text)
    \/ \E i \in DOMAIN data.transactions : startEditing(data.transactions[i])
    \/ cancelEditing
    \/ handleFormSubmit
    \/ Projects_handleFormSubmit

SpecForm == InitForm /\ [][NextForm]_vars

\* the form together with the answers of the calls its submissions issue
NextSubmit ==
    \/ NextForm
    \/ \E c \in calls : addTransactionReturns(c)

SpecSubmit == InitForm /\ [][NextSubmit]_vars

\* the ledger of the selected project: expenses recorded from a single source
\* and rows deleted with their delete button, with the answers of the calls
NextLedger ==
    \/ \E id \in Ids(data.projects) : setSelectedProjectId(id)
    \/ setTransAmount("1")
    \/ \E value \in sourceOptions : setTransPartner(value)
    \/ handleFormSubmit
    \/ \E i \in DOMAIN data.transactions :
          /\ data.transactions[i].projectId = selectedProjectId
          /\ handleDeleteTransaction(data.transactions[i].id)
    \/ \E c \in calls : addTransactionReturns(c)
    \/ \E c \in calls : deleteTransactionReturns(c)

SpecLedger == InitForm /\ [][NextLedger]_vars

(***************************************************************************)
(* Aggregates the properties of the form refer to.                         *)
(***************************************************************************)
RECURSIVE SumAmounts(_)
SumAmounts(transactions) ==
    IF transactions = <<>> THEN 0
    ELSE Head(transactions).amount + SumAmounts(Tail(transactions))

\* PartnerSummary: globalPartnerInvested
globalPartnerInvested(transactions, partnerId) ==
    SumAmounts(SelectSeq(transactions,
        LAMBDA t : t.partnerId = partnerId /\ (t.type = INVESTMENT \/ t.type = EXPENSE)))

\* PartnerSummary: globalTotalInvestment, and stats.totalInvestment of Dashboard
globalTotalInvestment(transactions) ==
    SumAmounts(SelectSeq(transactions,
        LAMBDA t : \/ t.type = INVESTMENT
                   \/ (t.type = EXPENSE /\ t.partnerId # Null)))

\* PartnerSummary: sharePercent, in tenths of a percent
sharePercent(transactions, partnerId) ==
    IF globalTotalInvestment(transactions) > 0
    THEN (globalPartnerInvested(transactions, partnerId) * 1000)
            \div globalTotalInvestment(transactions)
    ELSE 0

\* ProjectSummary: stats.expense of a project, no month chosen
projectExpense(transactions, projectId) ==
    SumAmounts(SelectSeq(transactions,
        LAMBDA t : t.projectId = projectId /\ t.type = EXPENSE))

(***************************************************************************)
(* The reports.  Their ledgers carry the date of each transaction, a pair  *)
(* <<"YYYY-MM", "DD">>; a month filter is "" or "YYYY-MM".                 *)
(***************************************************************************)
\* t.date.startsWith(filterMonth)
startsWith(date, month) == date[1] = month

\* the forEach of stats without its inner if (t.partnerId)
RECURSIVE Dashboard_statsInvestmentOnly(_)
Dashboard_statsInvestmentOnly(transactions) ==
    IF transactions = <<>>
    THEN [totalInvestment |-> 0, totalIncome |-> 0, totalExpense |-> 0, netProfit |-> 0]
    ELSE LET t == transactions[Len(transactions)]
             s == Dashboard_statsInvestmentOnly(SubSeq(transactions, 1, Len(transactions) - 1))
             totalInvestment ==
                 IF t.type = INVESTMENT THEN s.totalInvestment + t.amount
                 ELSE s.totalInvestment
             totalExpense ==
                 IF t.type = EXPENSE THEN s.totalExpense + t.amount ELSE s.totalExpense
             totalIncome ==
                 IF t.type = INCOME THEN s.totalIncome + t.amount ELSE s.totalIncome
         IN  [totalInvestment |-> totalInvestment, totalIncome |-> totalIncome,
              totalExpense |-> totalExpense, netProfit |-> totalIncome - totalExpense]

\* Dashboard: stats, the forEach over data.transactions
RECURSIVE Dashboard_stats(_)
Dashboard_stats(transactions) ==
    IF transactions = <<>>
    THEN [totalInvestment |-> 0, totalIncome |-> 0, totalExpense |-> 0, netProfit |-> 0]
    ELSE LET t == transactions[Len(transactions)]
             s == Dashboard_stats(SubSeq(transactions, 1, Len(transactions) - 1))
             totalInvestment ==
                 IF t.type = INVESTMENT THEN s.totalInvestment + t.amount
                 ELSE IF t.type = EXPENSE /\ t.partnerId # Null
                 THEN s.totalInvestment + t.amount
                 ELSE s.totalInvestment
             totalExpense ==
                 IF t.type = EXPENSE THEN s.totalExpense + t.amount ELSE s.totalExpense
             totalIncome ==
                 IF t.type = INCOME THEN s.totalIncome + t.amount ELSE s.totalIncome
         IN  [totalInvestment |-> totalInvestment, totalIncome |-> totalIncome,
              totalExpense |-> totalExpense, netProfit |-> totalIncome - totalExpense]

\* Dashboard: partnerInvestments, the partners with an invested value > 0
Dashboard_partnerInvestments ==
    LET value(p) == SumAmounts(SelectSeq(data.transactions,
                        LAMBDA t : /\ t.partnerId # Null
                                   /\ t.type = INVESTMENT \/ t.type = EXPENSE
                                   /\ t.partnerId = p.id))
        RECURSIVE Rows(_)
        Rows(partners) ==
            IF partners = <<>> THEN <<>>
            ELSE <<[id |-> Head(partners).id, value |-> value(Head(partners))]>>
                   \o Rows(Tail(partners))
    IN  SelectSeq(Rows(data.partners), LAMBDA item : item.value > 0)

\* Dashboard: percentage of a row of the partner table, in tenths of a percent
Dashboard_percentage(p) ==
    IF Dashboard_stats(data.transactions).totalInvestment > 0
    THEN (p.value * 1000) \div Dashboard_stats(data.transactions).totalInvestment
    ELSE 0

\* PartnerSummary: one element of filteredData before its last filter
PartnerRow(partner) ==
    LET ofPartner == SelectSeq(data.transactions,
            LAMBDA t : t.partnerId = partner.id /\ (t.type = INVESTMENT \/ t.type = EXPENSE))
        ofProject == IF filterProject # "all"
                     THEN SelectSeq(ofPartner, LAMBDA t : t.projectId = filterProject)
                     ELSE ofPartner
        investments == IF filterMonth # ""
                       THEN SelectSeq(ofProject, LAMBDA t : startsWith(t.date, filterMonth))
                       ELSE ofProject
    IN  [id |-> partner.id,
         totalInvested |-> SumAmounts(investments),
         sharePercent |-> sharePercent(data.transactions, partner.id),
         hasData |-> Len(investments) > 0]

RECURSIVE MapRows(_)
MapRows(partners) ==
    IF partners = <<>> THEN <<>> ELSE <<PartnerRow(Head(partners))>> \o MapRows(Tail(partners))

\* PartnerSummary: filteredData
filteredData ==
    LET targetPartners == IF filterPartner = "all" THEN data.partners
                          ELSE SelectSeq(data.partners, LAMBDA p : p.id = filterPartner)
    IN  SelectSeq(MapRows(targetPartners), LAMBDA p : p.hasData \/ filterPartner # "all")

\* ProjectSummary: stats (null without a selected project); roi in percent,
\* rounded down
ProjectSummary_stats ==
    IF summaryProjectId = Null THEN Null
    ELSE LET ofProject == SelectSeq(data.transactions,
                              LAMBDA t : t.projectId = summaryProjectId)
             transactions == IF summaryMonth # ""
                             THEN SelectSeq(ofProject,
                                      LAMBDA t : startsWith(t.date, summaryMonth))
                             ELSE ofProject
             income == SumAmounts(SelectSeq(transactions, LAMBDA t : t.type = INCOME))
             expense == SumAmounts(SelectSeq(transactions, LAMBDA t : t.type = EXPENSE))
             investment == SumAmounts(SelectSeq(transactions, LAMBDA t : t.type = INVESTMENT))
             netProfit == income - expense
         IN  [income |-> income, expense |-> expense, investment |-> investment,
              netProfit |-> netProfit,
              roi |-> IF investment > 0 THEN (netProfit * 100) \div investment ELSE 0,
              count |-> Len(transactions)]

\* ProjectSummary: stats.partnerShares, a row per partner with a value > 0
\* (the row's id stands for its name and colour)
ProjectSummary_partnerShares ==
    LET ofProject == SelectSeq(data.transactions,
                         LAMBDA t : t.projectId = summaryProjectId)
        transactions == IF summaryMonth # ""
                        THEN SelectSeq(ofProject,
                                 LAMBDA t : startsWith(t.date, summaryMonth))
                        ELSE ofProject
        invested(p) == SumAmounts(SelectSeq(transactions,
                           LAMBDA t : t.type = INVESTMENT /\ t.partnerId = p.id))
        RECURSIVE Shares(_)
        Shares(partners) ==
            IF partners = <<>> THEN <<>>
            ELSE <<[id |-> Head(partners).id, value |-> invested(Head(partners))]>>
                   \o Shares(Tail(partners))
    IN  SelectSeq(Shares(data.partners), LAMBDA p : p.value > 0)

(***************************************************************************)
(* The reports shown over a ledger that grows: the filters of              *)
(* PartnerSummary and of ProjectSummary, and the records added meanwhile.  *)
(***************************************************************************)
Months == {"2023-01", "2023-02"}

ReportDates == {<<"2023-01", "20">>, <<"2023-02", "01">>}

\* the amount input takes any number, a negative one too
ReportAmounts == {200000, -2}

setFilterPartner(value) ==
    /\ value # filterPartner
    /\ filterPartner' = value
    /\ last' = [op |-> "setFilterPartner"]
    /\ UNCHANGED <<coreVars, formVars, filterProject, filterMonth, summaryProjectId,
                   summaryMonth, importStatus>>
    /\ persist

setFilterProject(value) ==
    /\ value # filterProject
    /\ filterProject' = value
    /\ last' = [op |-> "setFilterProject"]
    /\ UNCHANGED <<coreVars, formVars, filterPartner, filterMonth, summaryProjectId,
                   summaryMonth, importStatus>>
    /\ persist

setFilterMonth(value) ==
    /\ value # filterMonth
    /\ filterMonth' = value
    /\ last' = [op |-> "setFilterMonth"]
    /\ UNCHANGED <<coreVars, formVars, filterPartner, filterProject, summaryProjectId,
                   summaryMonth, importStatus>>
    /\ persist

ProjectSummary_setSelectedProjectId(value) ==
    /\ value # summaryProjectId
    /\ summaryProjectId' = value
    /\ last' = [op |-> "ProjectSummary_setSelectedProjectId"]
    /\ UNCHANGED <<coreVars, formVars, filterPartner, filterProject, filterMonth,
                   summaryMonth, importStatus>>
    /\ persist

ProjectSummary_setFilterMonth(value) ==
    /\ value # summaryMonth
    /\ summaryMonth' = value
    /\ last' = [op |-> "ProjectSummary_setFilterMonth"]
    /\ UNCHANGED <<coreVars, formVars, filterPartner, filterProject, filterMonth,
                   summaryProjectId, importStatus>>
    /\ persist

\* the dates of the two transactions of INITIAL_DATA
INITIAL_DATES == <<<<"2023-01", "15">>, <<"2023-01", "16">>>>

\* hosted tables that hold no transaction yet
RemoteWithoutTransactions ==
    [partners     |-> {Partner("p1"), Partner("p2")},
     projects     |-> {Project("proj1")},
     transactions |-> {}]

\* the reports mounted on INITIAL_DATA, the snapshot kept when loadData
\* fails, or on the snapshot loaded from tables without transactions
InitReport ==
    /\ \/ /\ remote = RemoteInit
          /\ data = [INITIAL_DATA EXCEPT !.transactions =
                        [i \in DOMAIN INITIAL_DATA.transactions |->
                            INITIAL_DATA.transactions[i] @@ [date |-> INITIAL_DATES[i]]]]
       \/ /\ remote = RemoteWithoutTransactions
          /\ data = loadData
    /\ calls = {}
    /\ events = {}
    /\ initPc = "subscribed"
    /\ cloudData = Pending
    /\ nextId = 0
    /\ ops = 0
    /\ view = "PARTNERS"
    /\ filterPartner = "all"
    /\ filterProject = "all"
    /\ filterMonth = ""
    /\ summaryProjectId = data.projects[1].id
    /\ summaryMonth = ""
    /\ importStatus = "idle"
    /\ localStorage = <<>>
    /\ FormInit
    /\ last = [op |-> "init"]

NextReport ==
    \/ \E value \in {"all"} \cup Ids(data.partners) : setFilterPartner(value)
    \/ \E value \in {"all"} \cup Ids(data.projects) : setFilterProject(value)
    \/ \E value \in {""} \cup Months : setFilterMonth(value)
    \/ ops < MaxAdds /\ handleAddProject
    \/ \E projectId \in Ids(data.projects), partnerId \in {Null, "p1"},
          type \in {INVESTMENT, INCOME, EXPENSE, WITHDRAWAL},
          amount \in ReportAmounts, date \in ReportDates :
          /\ ops < MaxAdds
          /\ handleAddTransaction([projectId |-> projectId, partnerId |-> partnerId,
                                   type |-> type, amount |-> amount, date |-> date])

SpecReport == InitReport /\ [][NextReport]_vars

\* ProjectSummary shown over a ledger that grows
NextSummary ==
    \/ \E value \in Ids(data.projects) : ProjectSummary_setSelectedProjectId(value)
    \/ \E value \in {""} \cup Months : ProjectSummary_setFilterMonth(value)
    \/ handleAddProject
    \/ \E projectId \in Ids(data.projects), partnerId \in {Null, "p1"},
          type \in {INVESTMENT, INCOME, EXPENSE},
          amount \in ReportAmounts, date \in ReportDates :
          handleAddTransaction([projectId |-> projectId, partnerId |-> partnerId,
                                type |-> type, amount |-> amount, date |-> date])

SpecSummary == InitReport /\ [][NextSummary]_vars

\* the two statements restricted to a project, no month chosen, over a
\* ledger that grows
NextStatements ==
    \/ \E value \in {"all"} \cup Ids(data.projects) : setFilterProject(value)
    \/ \E value \in Ids(data.projects) : ProjectSummary_setSelectedProjectId(value)
    \/ ops < MaxAdds /\ handleAddProject
    \/ \E projectId \in Ids(data.projects), partnerId \in {Null, "p1"},
          type \in {INVESTMENT, INCOME, EXPENSE, WITHDRAWAL}, date \in ReportDates :
          /\ ops < MaxAdds
          /\ handleAddTransaction([projectId |-> projectId, partnerId |-> partnerId,
                                   type |-> type, amount |-> 200000, date |-> date])

SpecStatements == InitReport /\ [][NextStatements]_vars

(***************************************************************************)
(* Properties of the form (specification SpecForm).  A submission is the   *)
(* step that sets last to a handleFormSubmit record; last.before and       *)
(* last.created are the ledger before it and the records it appended.      *)
(***************************************************************************)
SubmittedBy(form) == last.op = "handleFormSubmit" /\ last.form = form

CreationOf(form) == SubmittedBy(form) /\ last.editingId = Null

LedgerIsBeforePlusCreated == data.transactions = last.before \o last.created

WithoutId(t) == [projectId |-> t.projectId, partnerId |-> t.partnerId,
                 type |-> t.type, amount |-> t.amount]

\* the requested amount A of the submission
Requested == parseFloat(last.text)

\* the funding specification of the submission: its positive entries
RECURSIVE PositiveSubAmounts(_)
PositiveSubAmounts(entries) ==
    IF entries = <<>> THEN <<>>
    ELSE LET text == Head(entries)[2] IN
         IF \E n \in 1 .. 9 : ToString(n) = text
         THEN <<<<Head(entries)[1], CHOOSE n \in 1 .. 9 : ToString(n) = text>>>>
              \o PositiveSubAmounts(Tail(entries))
         ELSE PositiveSubAmounts(Tail(entries))

FundingSpec ==
    IF last.split THEN PositiveSubAmounts(last.sources)
    ELSE <<<<IF last.source = "" THEN "POOL" ELSE last.source, Requested>>>>

\* C1: an accepted split-mode submission of amount A on project P emits
\* EXPENSE records on P whose amounts sum to A within 1.  Stated for A > 0
\* and for splits that do not name P itself as a source, where every record
\* on P is the expense side of an entry.
C1_Conservation ==
    (/\ CreationOf("sources")
     /\ last.split
     /\ last.outcome = "created"
     /\ Requested > 0
     /\ last.projectId \notin Keys(last.sources))
    => Abs(projectExpense(last.created, last.projectId) - Requested) <= 1

\* C2: in split mode, when the sum of the entered sub-amounts differs from
\* the requested amount by more than 1, the submission creates no record,
\* issues no add and leaves the ledger unchanged.
C2_SplitValidation ==
    [][(/\ last'.op = "handleFormSubmit"
        /\ last'.form = "sources"
        /\ isSplitMode
        /\ Abs(SumOfTexts(splitAmounts) - parseFloat(transAmount)) > 1)
       => (data' = data /\ calls' = calls /\ remote' = remote /\ last'.created = <<>>)]_vars

C2_Witness ==
    /\ SubmittedBy("sources")
    /\ last.split
    /\ last.outcome = "rejected"
    /\ Abs(SumOfTexts(last.sources) - Requested) > 1

\* C3: a creation-mode expense of amount a on project P whose single source
\* is another project Q creates exactly two records, EXPENSE of amount a
\* without partner, one on P and one on Q; the expense totals of P and of Q
\* each grow by a.
CrossProjectSingle ==
    /\ CreationOf("sources")
    /\ last.type = EXPENSE
    /\ ~last.split
    /\ last.source \in Ids(data.projects)
    /\ last.source # last.projectId

C3_CrossProjectSymmetry ==
    CrossProjectSingle =>
        /\ LedgerIsBeforePlusCreated
        /\ Len(last.created) = 2
        /\ {WithoutId(last.created[i]) : i \in 1 .. 2}
             = {NewTransaction(last.projectId, Null, EXPENSE, Requested),
                NewTransaction(last.source, Null, EXPENSE, Requested)}
        /\ last.created[1].id # last.created[2].id
        /\ \A p \in {last.projectId, last.source} :
              projectExpense(data.transactions, p)
                = projectExpense(last.before, p) + Requested

C3_Witness ==
    /\ CrossProjectSingle
    /\ Requested > 0
    /\ Len(last.created) = 2

\* C4: for each positive entry of the funding specification of an expense on
\* project P, a pool entry of sub-amount s creates exactly one EXPENSE on P
\* of amount s without partner, and a partner entry (X, s) creates exactly
\* one EXPENSE on P of amount s with partnerId X, after which the invested
\* total of X is larger by s.  The records of entry i follow those of the
\* entries before it, two for a project source and one otherwise.
IsProjectKey(key) == key \in Ids(data.projects)

RECURSIVE RecordsBefore(_, _)
RecordsBefore(spec, i) ==
    IF i = 1 THEN 0
    ELSE RecordsBefore(spec, i - 1) + (IF IsProjectKey(spec[i - 1][1]) THEN 2 ELSE 1)

RecordsOf(spec, i) ==
    SubSeq(last.created, RecordsBefore(spec, i) + 1,
           RecordsBefore(spec, i) + (IF IsProjectKey(spec[i][1]) THEN 2 ELSE 1))

ExpenseCreation ==
    /\ CreationOf("sources")
    /\ last.type = EXPENSE
    /\ last.outcome = "created"

C4_PoolAndPartnerSources ==
    ExpenseCreation =>
        /\ LedgerIsBeforePlusCreated
        /\ Len(last.created) = RecordsBefore(FundingSpec, Len(FundingSpec) + 1)
        /\ \A i \in DOMAIN FundingSpec :
              LET key == FundingSpec[i][1]
                  sub == FundingSpec[i][2]
                  recs == RecordsOf(FundingSpec, i)
              IN  /\ key = "POOL" =>
                        /\ Len(recs) = 1
                        /\ WithoutId(recs[1]) = NewTransaction(last.projectId, Null, EXPENSE, sub)
                  /\ key \in Ids(data.partners) =>
                        /\ Len(recs) = 1
                        /\ WithoutId(recs[1]) = NewTransaction(last.projectId, key, EXPENSE, sub)
                        /\ globalPartnerInvested(data.transactions, key)
                             = globalPartnerInvested(last.before, key) + sub

\* the split {POOL: s, X: s'} of the example, both entries positive
C4_Witness ==
    /\ ExpenseCreation
    /\ last.split
    /\ Len(FundingSpec) = 2
    /\ FundingSpec[1][1] = "POOL"
    /\ FundingSpec[2][1] \in Ids(data.partners)
    /\ Len(last.created) = 2
    /\ last.created[2].partnerId = FundingSpec[2][1]

\* C5: a creation-mode submission with INCOME or INVESTMENT selected creates
\* exactly one record, of the selected type, with the entered amount and the
\* selected partner.
C5_NonExpenseCreation ==
    (/\ last.op = "handleFormSubmit"
     /\ last.editingId = Null
     /\ last.type \in {INCOME, INVESTMENT})
    => /\ Len(last.created) = 1
       /\ WithoutId(last.created[1])
            = NewTransaction(last.projectId,
                             IF last.source = "" THEN Null ELSE last.source,
                             last.type, Requested)

\* C6: a submission whose amount is zero or negative creates no record.
C6_NonPositiveRejected ==
    (last.op = "handleFormSubmit" /\ Requested <= 0) => last.created = <<>>

(***************************************************************************)
(* Properties of a submission and its remote calls (specification          *)
(* SpecSubmit).                                                            *)
(***************************************************************************)
\* every call of the request that last belongs to has been answered
RequestResolved ==
    /\ last.op = "addTransaction"
    /\ Cardinality(last.request) > 1
    /\ \A c \in calls : c.id \notin last.request

\* C13: when one submission created several records and the remote insert of
\* one of them failed, no record of that submission is in the ledger once
\* all of its calls have been answered.
C13_AllOrNothing ==
    (RequestResolved /\ last.failed # {}) =>
        \A i \in DOMAIN data.transactions : data.transactions[i].id \notin last.request

(***************************************************************************)
(* Properties of the partners' shares (specification SpecOwn).             *)
(***************************************************************************)
RECURSIVE SumInvested(_, _)
SumInvested(partners, transactions) ==
    IF partners = <<>> THEN 0
    ELSE globalPartnerInvested(transactions, Head(partners).id)
           + SumInvested(Tail(partners), transactions)

\* C14: when the global total investment is positive, the amounts invested by
\* the partners of the snapshot add up to it, so that their shares add up to
\* 100%; when it is 0 every partner's share is 0.
C14_ShareNormalization ==
    /\ globalTotalInvestment(data.transactions) > 0 =>
          SumInvested(data.partners, data.transactions)
            = globalTotalInvestment(data.transactions)
    /\ globalTotalInvestment(data.transactions) = 0 =>
          \A i \in DOMAIN data.partners :
              sharePercent(data.transactions, data.partners[i].id) = 0

(***************************************************************************)
(* Properties of the reports (specification SpecReport).                   *)
(***************************************************************************)
\* the sum of the amounts of the transactions at the indices I
RECURSIVE SumOver(_, _)
SumOver(transactions, I) ==
    IF I = {} THEN 0
    ELSE LET i == CHOOSE j \in I : TRUE
         IN  transactions[i].amount + SumOver(transactions, I \ {i})

\* a / b rounded down, b # 0
Ratio(a, b) == IF b > 0 THEN a \div b ELSE (-a) \div (-b)

\* the INVESTMENT and EXPENSE transactions of a partner, whole ledger
InvestedBy(partnerId) ==
    SumOver(data.transactions,
            {i \in DOMAIN data.transactions :
                /\ data.transactions[i].partnerId = partnerId
                /\ data.transactions[i].type \in {INVESTMENT, EXPENSE}})

\* INVESTMENT amounts plus the amounts of EXPENSE with a partnerId
TotalInvestment ==
    SumOver(data.transactions,
            {i \in DOMAIN data.transactions :
                \/ data.transactions[i].type = INVESTMENT
                \/ /\ data.transactions[i].type = EXPENSE
                   /\ data.transactions[i].partnerId # Null})

TheInitialLedger ==
    /\ Len(data.transactions) = 2
    /\ \A i \in 1 .. 2 : data.transactions[i].type = INVESTMENT
    /\ data.transactions[1].partnerId = "p1" /\ data.transactions[1].amount = 500000
    /\ data.transactions[2].partnerId = "p2" /\ data.transactions[2].amount = 300000

\* C15: whatever partner, project and month filter is selected, the share of
\* each partner shown is the partner's INVESTMENT and EXPENSE amounts over
\* the whole ledger * 100 / the global total investment (here in tenths of a
\* percent), and 0 when that total is 0.  With 500,000 invested by p1 and
\* 300,000 by p2 the total is 800,000 and the shares are 62.5% and 37.5%.
C15_OwnershipShare ==
    /\ \A i \in DOMAIN filteredData :
          filteredData[i].sharePercent
            = IF TotalInvestment = 0 THEN 0
              ELSE Ratio(InvestedBy(filteredData[i].id) * 1000, TotalInvestment)
    /\ \A i \in DOMAIN Dashboard_partnerInvestments :
          Dashboard_percentage(Dashboard_partnerInvestments[i])
            = IF TotalInvestment = 0 THEN 0
              ELSE Ratio(InvestedBy(Dashboard_partnerInvestments[i].id) * 1000,
                         TotalInvestment)
    /\ TheInitialLedger =>
          /\ globalTotalInvestment(data.transactions) = 800000
          /\ \A i \in DOMAIN filteredData :
                /\ filteredData[i].id = "p1" => filteredData[i].sharePercent = 625
                /\ filteredData[i].id = "p2" => filteredData[i].sharePercent = 375


\* the sum of the amounts of the transactions of one type
TotalOfType(transactions, type) ==
    SumOver(transactions, {i \in DOMAIN transactions : transactions[i].type = type})

\* C16: totalInvestment is the INVESTMENT amounts plus the amounts of EXPENSE
\* with a partnerId, totalIncome the INCOME amounts, totalExpense all EXPENSE
\* amounts and netProfit their difference; adding one EXPENSE of amount a
\* with a partnerId raises totalExpense and totalInvestment by a each, and
\* adding a WITHDRAWAL changes none of the four totals.
C16_GlobalTotals ==
    [][last'.op = "handleAddTransaction" =>
        LET t == data'.transactions[Len(data'.transactions)]
            before == Dashboard_stats(data.transactions)
            after == Dashboard_stats(data'.transactions)
        IN  /\ after.totalInvestment = TotalInvestment'
            /\ after.totalInvestment = globalTotalInvestment(data'.transactions)
            /\ after.totalIncome = TotalOfType(data'.transactions, INCOME)
            /\ after.totalExpense = TotalOfType(data'.transactions, EXPENSE)
            /\ after.netProfit = after.totalIncome - after.totalExpense
            /\ (t.type = EXPENSE /\ t.partnerId # Null) =>
                  /\ after.totalExpense = before.totalExpense + t.amount
                  /\ after.totalInvestment = before.totalInvestment + t.amount
                  /\ after.totalIncome = before.totalIncome
            /\ t.type = WITHDRAWAL => after = before]_vars

\* an EXPENSE paid by p1 was added last and counts in both totals
C16_Witness ==
    /\ last.op = "handleAddTransaction"
    /\ LET t == data.transactions[Len(data.transactions)] IN
       /\ t.id = last.id
       /\ t.type = EXPENSE
       /\ t.partnerId = "p1"
       /\ Dashboard_stats(data.transactions).totalExpense
            = Dashboard_stats(last.before.transactions).totalExpense + t.amount
       /\ Dashboard_stats(data.transactions).totalInvestment
            = Dashboard_stats(last.before.transactions).totalInvestment + t.amount

\* the transactions of the selected project whose date starts with the month
InScope ==
    {i \in DOMAIN data.transactions :
        /\ data.transactions[i].projectId = summaryProjectId
        /\ summaryMonth # "" => data.transactions[i].date[1] = summaryMonth}

ScopeTotal(type) ==
    SumOver(data.transactions, {i \in InScope : data.transactions[i].type = type})

\* C17: the ROI of the selected project, restricted to the chosen month when
\* one is chosen, is (income - expense) * 100 / investment, where investment
\* is the sum of the INVESTMENT transactions in that scope, and 0 when that
\* investment is 0.
C17_ROI ==
    summaryProjectId # Null =>
        /\ ProjectSummary_stats.investment = ScopeTotal(INVESTMENT)
        /\ ProjectSummary_stats.roi
             = IF ScopeTotal(INVESTMENT) = 0 THEN 0
               ELSE Ratio((ScopeTotal(INCOME) - ScopeTotal(EXPENSE)) * 100,
                          ScopeTotal(INVESTMENT))

(***************************************************************************)
(* Properties of the import and of the device storage (specification       *)
(* SpecSettings).                                                          *)
(***************************************************************************)
\* the file has the three top-level keys
WellFormed(file) ==
    /\ file.kind = "object"
    /\ {"partners", "projects", "transactions"} \subseteq DOMAIN file.value

\* the file is not valid JSON or lacks one of the three top-level keys
Malformed(file) ==
    \/ file.kind = "invalid"
    \/ /\ file.kind = "object"
       /\ ~({"partners", "projects", "transactions"} \subseteq DOMAIN file.value)

\* C19: an imported file that is not valid JSON or lacks one of the keys
\* partners, projects, transactions leaves the snapshot unchanged and sets
\* the import status to 'error'.
C19_MalformedImport ==
    [][(last'.op = "handleFileChange" /\ Malformed(last'.file))
       => (data' = data /\ importStatus' = "error")]_vars

\* a file without the key transactions was rejected
C19_Witness ==
    /\ last.op = "handleFileChange"
    /\ last.file.kind = "object"
    /\ DOMAIN last.file.value = {"partners", "projects"}
    /\ last.confirmed
    /\ importStatus = "error"
    /\ data = last.before

\* C20: a well-formed import replaces the snapshot only after the user
\* confirmed and only without a remote store; when the user declines, or
\* when a remote store is configured, the snapshot is unchanged.
C20_ImportReplacement ==
    [][(last'.op = "handleFileChange" /\ WellFormed(last'.file))
       => /\ (last'.confirmed /\ ~isSupabaseConnected) => data' = last'.file.value
          /\ (~last'.confirmed \/ isSupabaseConnected) => data' = data]_vars

\* C18: both modes are configurations of the program; without a remote
\* store the device storage holds the in-memory snapshot after every
\* mutation, and with a remote store the device storage is never written.
C18_LocalOnlyPersistence ==
    /\ \E connected \in Configurations : ~connected
    /\ \E connected \in Configurations : connected
    /\ ~isSupabaseConnected => (last.op # "init" => localStorage = <<data>>)
    /\ isSupabaseConnected => localStorage = <<>>


(***************************************************************************)
(* Properties of saving an edit (specification SpecForm).                  *)
(***************************************************************************)
\* the submission saved an edit of an expense of the ledger with another
\* project chosen as its source
EditTowardProject ==
    /\ SubmittedBy("sources")
    /\ last.editingId # Null
    /\ \E i \in DOMAIN last.before :
          last.before[i].id = last.editingId /\ last.before[i].type = EXPENSE
    /\ last.type = EXPENSE
    /\ last.source \in Ids(data.projects)
    /\ last.source # last.projectId

\* C21: saving an edit of an existing expense with another project Q as its
\* source updates the record with the edited id in place (same id, still one
\* record with that id, no partnerId) and appends one new EXPENSE on Q with
\* the edited amount; every other record stays as it was.
C21_EditAccumulatesOffsets ==
    EditTowardProject =>
        /\ Len(data.transactions) = Len(last.before) + 1
        /\ \A i \in DOMAIN last.before :
              data.transactions[i]
                = IF last.before[i].id = last.editingId
                  THEN Transaction(last.editingId, last.projectId, Null, last.type, Requested)
                  ELSE last.before[i]
        /\ Cardinality({i \in DOMAIN data.transactions :
                           data.transactions[i].id = last.editingId}) = 1
        /\ WithoutId(data.transactions[Len(data.transactions)])
             = NewTransaction(last.source, Null, EXPENSE, Requested)


(***************************************************************************)
(* Properties of the delete button (specification SpecLedger).             *)
(***************************************************************************)
\* C22: deleting a transaction by id removes exactly the record with that id
\* from the snapshot; every other transaction, the other entry of the same
\* cross-project allocation included, keeps its place and its fields, and
\* the partners and the projects are unchanged.
C22_IndependentDeletion ==
    [][last'.op = "handleDeleteTransaction" =>
        /\ \E k \in DOMAIN data.transactions :
              /\ data.transactions[k].id = last'.id
              /\ data'.transactions
                   = SubSeq(data.transactions, 1, k - 1)
                       \o SubSeq(data.transactions, k + 1, Len(data.transactions))
        /\ data'.partners = data.partners
        /\ data'.projects = data.projects]_vars

\* one entry of a cross-project allocation was deleted and the other one, in
\* the source project, is still in the ledger
C22_Witness ==
    /\ last.op = "handleDeleteTransaction"
    /\ \E i, j \in DOMAIN last.before.transactions :
          LET t == last.before.transactions[i]
              u == last.before.transactions[j]
          IN  /\ t.id = last.id
              /\ t.id = NewId(0) /\ u.id = NewId(1)
              /\ t.type = EXPENSE /\ u.type = EXPENSE
              /\ t.partnerId = Null /\ u.partnerId = Null
              /\ t.amount = u.amount
              /\ t.projectId # u.projectId
              /\ ~HasId(data.transactions, t.id)
              /\ \E m \in DOMAIN data.transactions : data.transactions[m] = u

(***************************************************************************)
(* Properties of the statements restricted to a project (specification     *)
(* SpecStatements).                                                        *)
(***************************************************************************)
\* the INVESTMENT and EXPENSE amounts of a partner on a project
InvestedOn(partnerId, projectId) ==
    SumOver(data.transactions,
            {i \in DOMAIN data.transactions :
                /\ data.transactions[i].partnerId = partnerId
                /\ data.transactions[i].projectId = projectId
                /\ data.transactions[i].type \in {INVESTMENT, EXPENSE}})

\* C23: the amount a partner invested in one project is the sum of the
\* partner's INVESTMENT and EXPENSE transactions on that project, both in
\* the partner shares of the project statement and in the partner statement
\* filtered by that project, so the two show the same amount.
C23_PerProjectInvested ==
    /\ \A i \in DOMAIN ProjectSummary_partnerShares :
          ProjectSummary_partnerShares[i].value
            = InvestedOn(ProjectSummary_partnerShares[i].id, summaryProjectId)
    /\ filterProject # "all" =>
          \A i \in DOMAIN filteredData :
              filteredData[i].totalInvested = InvestedOn(filteredData[i].id, filterProject)
    /\ filterProject = summaryProjectId =>
          \A i \in DOMAIN ProjectSummary_partnerShares, j \in DOMAIN filteredData :
              ProjectSummary_partnerShares[i].id = filteredData[j].id
                => ProjectSummary_partnerShares[i].value = filteredData[j].totalInvested


(***************************************************************************)
(* Properties of the session and the hosted tables (specification Spec).   *)
(***************************************************************************)
\* the load is over, every remote call has been answered and every change
\* event has been handled
Quiescent ==
    /\ initPc = "subscribed"
    /\ calls = {}
    /\ events = {}

\* C24: with a remote store, once every issued remote call has resolved and
\* every change event has been delivered, the transaction ids and the
\* partner ids of the snapshot are those of the hosted tables.
C24_Convergence ==
    Quiescent =>
        /\ Ids(data.transactions) = RowIds(remote.transactions)
        /\ Ids(data.partners) = RowIds(remote.partners)


\* C25: when the remote call of a delete fails, the revert puts back the
\* record that delete removed and nothing else: every other record that is
\* in the snapshot stays, and every other record that is not in it (removed
\* by another delete or by a DELETE event, or never there) stays out.
C25_RevertRestoresOnlyItsDelete ==
    [][(last'.op \in {"deleteTransaction", "deletePartner"} /\ last'.error) =>
        LET table == IF last'.op = "deleteTransaction" THEN "transactions" ELSE "partners"
        IN  /\ Ids(data'[table]) \ {last'.id} = Ids(data[table]) \ {last'.id}
            /\ \A i \in DOMAIN data[table] :
                  data[table][i].id # last'.id =>
                      \E j \in DOMAIN data'[table] : data'[table][j] = data[table][i]]_vars


(***************************************************************************)
(* Properties of the start of the session (specification SpecLoad).        *)
(***************************************************************************)
\* the ids this session has generated
OwnIds == {NewId(k) : k \in 0 .. nextId - 1}

\* C26: a record added while the initial loadData is pending and whose
\* remote insert succeeded is in the snapshot once the load has resolved
\* (and every change event sent to the session has been handled).
C26_NoLossDuringLoad ==
    (initPc = "subscribed" /\ events = {}) =>
        \A r \in remote.transactions :
            r.id \in OwnIds => HasId(data.transactions, r.id)


(***************************************************************************)
(* Properties of the allocation (specification SpecForm).                  *)
(***************************************************************************)
\* C27: whatever projects and sources were selected and whatever split
\* entries were made before it, a submission treats a key as a cross-project
\* source only if the key is a project other than the selected project, so
\* the two records of such an entry are never on the same project.
C27_SourceDiffersFromTarget ==
    (CreationOf("sources") /\ last.outcome = "created") =>
        \A i \in DOMAIN FundingSpec :
            IsProjectKey(FundingSpec[i][1]) =>
                /\ FundingSpec[i][1] # last.projectId
                /\ RecordsOf(FundingSpec, i)[1].projectId
                     # RecordsOf(FundingSpec, i)[2].projectId

\* C29: a creation-mode expense submission with a requested amount A > 0
\* that the validation does not reject creates at least one EXPENSE record
\* on the selected project.
C29_AcceptedExpenseRecorded ==
    (/\ CreationOf("sources")
     /\ last.type = EXPENSE
     /\ last.outcome = "created"
     /\ Requested > 0)
    => \E i \in DOMAIN last.created :
          /\ last.created[i].type = EXPENSE
          /\ last.created[i].projectId = last.projectId


(***************************************************************************)
(* Properties of the import status (specification SpecSettings).           *)
(***************************************************************************)
\* C30: the import status becomes 'success' only if the snapshot was
\* replaced by the imported data; when the user declines the confirmation
\* the status does not become 'success'.
C30_ImportStatusReflectsOutcome ==
    [][last'.op = "handleFileChange" =>
        /\ importStatus' = "success" => (last'.confirmed /\ data' = last'.file.value)
        /\ ~last'.confirmed => importStatus' # "success"]_vars


(***************************************************************************)
(* Properties of the ids (specification Spec).                             *)
(***************************************************************************)
UniqueIds(list) ==
    \A i, j \in DOMAIN list : list[i].id = list[j].id => i = j

\* C28: in every state reached by local adds with fresh ids, deletes,
\* reverts after a remote failure, the initial load and change events, no
\* two records of the same table of the snapshot have the same id.
C28_UniqueIds ==
    \A table \in TableNames : UniqueIds(data[table])

\* the INSERT event of a transaction this session had added itself was
\* handled, and the snapshot holds that transaction once
C28_Witness ==
    /\ last.op = "handleRealtimeUpdate"
    /\ last.eventType = "INSERT"
    /\ last.table = "transactions"
    /\ last.id \in OwnIds
    /\ last.present
    /\ HasId(data.transactions, last.id)
    /\ UniqueIds(data.transactions)

====
